---------------------------- MODULE Spec2Model ----------------------------
(***************************************************************************)
(* A model of the ID-photo generator: the Transformation Client            *)
(* (services/geminiService.ts, transformToIdPhoto) and the Interaction     *)
(* Shell that calls it (the App component).                                *)
(*                                                                         *)
(* JavaScript strings are TLA+ strings.  `undefined` and `null` of a       *)
(* string-typed slot are the sentinels Undefined and Null; objects are     *)
(* records, and an absent property is an absent field.                     *)
(***************************************************************************)
EXTENDS Integers, Sequences, FiniteSets, TLC

(***************************************************************************)
(* Bounds of the model.                                                    *)
(***************************************************************************)
\* invocations of transformToIdPhoto over a run (Generate clicks, in the shell)
MaxCalls == 2
\* parts in one service response
MaxParts == 2
\* files the user selects over a run
MaxSelects == 2
\* firings of the message interval over a run
MaxTicks == 1

(***************************************************************************)
(* JavaScript values.                                                      *)
(***************************************************************************)
Undefined == "undefined"
Null == "null"

\* JavaScript truthiness of a string-typed slot: !v
Falsy(v) == v \in {Undefined, Null, ""}

(***************************************************************************)
(* services/geminiService.ts: module initialisation.                       *)
(***************************************************************************)
\* process.env.API_KEY as the bundle may see it: set, or absent
EnvKeys == {"test-api-key", Undefined}

MissingKeyWarning ==
    "API_KEY environment variable not set. Using fallback for development. Please set your API key for production."

\* a module initialisation that refuses to load without a credential
ModuleLoadStrict(envKey) ==
    [ loaded   |-> ~Falsy(envKey),
      warnings |-> <<>>,
      ai       |-> [apiKey |-> envKey] ]

\* lines 3-9: read the key, warn when it is missing, build the client anyway
ModuleLoad(envKey) ==
    [ loaded   |-> TRUE,
      warnings |-> IF Falsy(envKey) THEN <<MissingKeyWarning>> ELSE <<>>,
      ai       |-> [apiKey |-> envKey] ]

(***************************************************************************)
(* transformToIdPhoto: the request.                                        *)
(***************************************************************************)
InstructionHead ==
    "Transform the person in the image into a standard ID photo.\n\n**CRITICAL INSTRUCTIONS:**\n1.  **Final Image Dimensions:** The MOST IMPORTANT requirement is the final image's aspect ratio. It **MUST BE EXACTLY "

InstructionBody ==
    " (width to height)**. The entire output image file must have this specific shape. This instruction is more important than all others. Do not fail on this.\n2.  **Attire:** Dress the person in a simple, plain white collared shirt.\n3.  **Posture:** The person must face forward, looking directly at the camera with their shoulders straight and squared.\n4.  **Background:** Replace the entire background with a solid, plain, professional light blue color.\n5.  **Composition:** Crop the image to a head-and-shoulders portrait.\n6.  **Identity Preservation:** Do not change the person's face, hair, or identity.\n\nReminder: The final image's aspect ratio **MUST be "

InstructionTail == "**. This is a strict requirement."

\* an instruction that states the ratio once and drops it from the reminder
InstructionTextOnce(aspectRatio) ==
    InstructionHead \o aspectRatio \o InstructionBody \o "as required" \o InstructionTail

\* lines 31-41: the template literal, ${aspectRatio} substituted twice
InstructionText(aspectRatio) ==
    InstructionHead \o aspectRatio \o InstructionBody \o aspectRatio \o InstructionTail

\* lines 20-48: the argument of ai.models.generateContent
BuildRequest(base64ImageData, mimeType, aspectRatio) ==
    [ model    |-> "gemini-2.5-flash-image-preview",
      contents |-> [ parts |-> <<
          [ inlineData |-> [ data |-> base64ImageData, mimeType |-> mimeType ] ],
          [ text |-> InstructionText(aspectRatio) ] >> ],
      config   |-> [ responseModalities |-> <<"IMAGE", "TEXT">> ] ]

(***************************************************************************)
(* The generation service: what ai.models.generateContent can settle with. *)
(***************************************************************************)
TextPart(t) == [ text |-> t ]
ImagePart(d) == [ inlineData |-> [ data |-> d, mimeType |-> "image/png" ] ]

\* the parts a response is made of: text, two different images, and an
\* inlineData part whose data is the empty string
ResponseParts == { TextPart("ok"), ImagePart("QUJD"), ImagePart("REVG"), ImagePart("") }

PartLists == UNION { [1..n -> ResponseParts] : n \in 0..MaxParts }

WellFormedResponses == { [ candidates |-> << [ content |-> [ parts |-> ps ] ] >> ] : ps \in PartLists }

\* responses that lack a level of candidates[0].content.parts
MalformedResponses ==
    { [ promptFeedback |-> "blocked" ],
      [ candidates |-> <<>> ],
      [ candidates |-> << [ finishReason |-> "SAFETY" ] >> ],
      [ candidates |-> << [ content |-> [ role |-> "model" ] ] >> ] }

\* what the awaited call can throw: Error objects, and values that are no Error
Rejections ==
    { [ isError |-> TRUE,  message |-> "fetch failed" ],
      [ isError |-> TRUE,  message |-> "API key not valid. Please pass a valid API key." ],
      [ isError |-> FALSE, message |-> "quota exceeded" ] }

Resolve(r) == [ kind |-> "resolve", response |-> r ]
Reject(e) == [ kind |-> "reject", error |-> e ]

\* every way the awaited call can settle: a response of any shape, or a failure
AllReplies ==
    { Resolve(r) : r \in WellFormedResponses \cup MalformedResponses }
        \cup { Reject(e) : e \in Rejections }

\* without a credential the transport refuses every request
KeylessReplies == { Reject(e) : e \in Rejections }

\* how the call made through the client `ai` can settle
ServiceReplies(apiKey) ==
    IF Falsy(apiKey) THEN KeylessReplies ELSE AllReplies

(***************************************************************************)
(* transformToIdPhoto: the response.                                       *)
(***************************************************************************)
\* an Error object (new Error(m), or a TypeError raised by the engine)
JsError(m) == [ isError |-> TRUE, message |-> m ]

\* line 51: response.candidates[0].content.parts, and the iteration over it
GetParts(response) ==
    IF "candidates" \notin DOMAIN response
    THEN [ threw |-> TRUE,
           error |-> JsError("Cannot read properties of undefined (reading '0')") ]
    ELSE IF Len(response.candidates) = 0
    THEN [ threw |-> TRUE,
           error |-> JsError("Cannot read properties of undefined (reading 'content')") ]
    ELSE IF "content" \notin DOMAIN response.candidates[1]
    THEN [ threw |-> TRUE,
           error |-> JsError("Cannot read properties of undefined (reading 'parts')") ]
    ELSE IF "parts" \notin DOMAIN response.candidates[1].content
    THEN [ threw |-> TRUE,
           error |-> JsError("undefined is not iterable (cannot read property Symbol(Symbol.iterator))") ]
    ELSE [ threw |-> FALSE, parts |-> response.candidates[1].content.parts ]

\* line 52: part.inlineData && part.inlineData.data
HasImage(part) ==
    /\ "inlineData" \in DOMAIN part
    /\ "data" \in DOMAIN part.inlineData
    /\ ~Falsy(part.inlineData.data)

RECURSIVE FindImageLast(_)
\* a scan that keeps the last image part instead of returning at the first
FindImageLast(parts) ==
    IF parts = <<>> THEN Undefined
    ELSE IF HasImage(parts[Len(parts)]) THEN parts[Len(parts)].inlineData.data
    ELSE FindImageLast(SubSeq(parts, 1, Len(parts) - 1))

RECURSIVE FindImage(_)
\* lines 51-55: the loop, returning at the first part that has image data;
\* Undefined when the loop runs to its end
FindImage(parts) ==
    IF parts = <<>> THEN Undefined
    ELSE IF HasImage(parts[1]) THEN parts[1].inlineData.data
    ELSE FindImage(Tail(parts))

NoImageMessage == "The AI did not return an image. Please try a different photo."
FailurePrefix == "Failed to generate ID photo: "
UnknownFailureMessage == "An unknown error occurred while generating the ID photo."

\* lines 19-57: the try block, given what the awaited call settled with
TryBlock(reply) ==
    IF reply.kind = "reject"
    THEN [ threw |-> TRUE, error |-> reply.error ]
    ELSE LET got == GetParts(reply.response) IN
         IF got.threw THEN got
         ELSE LET found == FindImage(got.parts) IN
              IF found # Undefined
              THEN [ threw |-> FALSE, value |-> found ]
              ELSE [ threw |-> TRUE, error |-> JsError(NoImageMessage) ]

\* a catch block that reports every failure with the generic message
CatchBlockGeneric(error) == [ isError |-> TRUE, message |-> UnknownFailureMessage ]

\* a catch block that lets an Error through as it came
CatchBlockRethrow(error) ==
    IF error.isError
    THEN error
    ELSE [ isError |-> TRUE, message |-> UnknownFailureMessage ]

\* lines 59-65: the catch block; what it throws
CatchBlock(error) ==
    IF error.isError
    THEN [ isError |-> TRUE, message |-> FailurePrefix \o error.message ]
    ELSE [ isError |-> TRUE, message |-> UnknownFailureMessage ]

\* the promise of transformToIdPhoto, given how the try block ended: resolved
\* with the value returned at line 53, or rejected with what the catch block throws
SettleWith(tried) ==
    IF tried.threw
    THEN [ state |-> "rejected", error |-> CatchBlock(tried.error) ]
    ELSE [ state |-> "resolved", value |-> tried.value ]

\* lines 18-66: how the promise of transformToIdPhoto settles
Outcome(reply) == SettleWith(TryBlock(reply))

(***************************************************************************)
(* State.                                                                  *)
(***************************************************************************)
VARIABLES
    loaded,             \* the service module finished initialising
    warnings,           \* what console.warn printed at initialisation
    ai,                 \* the module-level GoogleGenAI client
    calls,              \* transformToIdPhoto invocations awaiting the service:
                        \*   id -> [args, sent: the requests issued for it]
    nextCall,           \* id of the next invocation
    settled,            \* what a direct caller saw of the invocation that settled
                        \*   last: the reply, how the promise settled, and how
                        \*   many requests the invocation had issued
    originalImage,      \* useState: data URL of the uploaded photo, or Null
    originalImageType,  \* useState: its MIME type, or Null
    generatedImage,     \* useState: data URL of the result, or Null
    generatedFrom,      \* the originalImage the closure that stored generatedImage
                        \*   was created with (Null when generatedImage is Null)
    status,             \* useState: AppStatus
    error,              \* useState: error text, or Null
    processingMessage,  \* useState: the rotating text
    aspectRatio,        \* useState: "3:4" or "4:6"
    inputFile,          \* name of the file the mounted file input holds, or Null
    readers,            \* FileReaders still reading: id -> file
    selects,            \* files selected so far
    closures,           \* handleGenerateClick activations suspended at the await:
                        \*   call id -> [originalImage, intervalId]
    timers,             \* live setInterval timers: intervalId -> messageIndex
    ticks               \* interval firings so far

clientVars == <<loaded, warnings, ai, calls, nextCall, settled>>
shellVars == <<originalImage, originalImageType, generatedImage, generatedFrom, status,
               error, processingMessage, aspectRatio, inputFile, readers, selects,
               closures, timers, ticks>>
vars == <<clientVars, shellVars>>

NoCall == [ id |-> 0 ]

\* f without the key k
Without(f, k) == [ x \in DOMAIN f \ {k} |-> f[x] ]

(***************************************************************************)
(* The Transformation Client as a state machine.                           *)
(***************************************************************************)
\* a continuation that sends the request once more when the call failed
ContinueRetry(call, reply) ==
    IF reply.kind = "reject" /\ Len(call.sent) < 2
    THEN [ done |-> FALSE, sent |-> Append(call.sent, call.sent[1]), outcome |-> Outcome(reply) ]
    ELSE [ done |-> TRUE, sent |-> call.sent, outcome |-> Outcome(reply) ]

\* a continuation that answers from the result of the previous invocation
ContinueCached(call, reply) ==
    [ done    |-> TRUE,
      sent    |-> call.sent,
      outcome |-> IF settled # NoCall /\ settled.outcome.state = "resolved"
                  THEN settled.outcome
                  ELSE Outcome(reply) ]

\* lines 20-66: the invocation from the point where the awaited call settles:
\* it settles its own promise and issues nothing more
Continue(call, reply) ==
    [ done |-> TRUE, sent |-> call.sent, outcome |-> Outcome(reply) ]

\* lines 18-48: the invocation up to the await: one request, built from the arguments
Start(base64ImageData, mimeType, ratio) ==
    [ args |-> [ data |-> base64ImageData, mimeType |-> mimeType, aspectRatio |-> ratio ],
      sent |-> << BuildRequest(base64ImageData, mimeType, ratio) >> ]

\* transformToIdPhoto is entered: a new invocation waits for the service
ClientInvoke(base64ImageData, mimeType, ratio) ==
    /\ loaded
    /\ nextCall <= MaxCalls
    /\ calls' = (nextCall :> Start(base64ImageData, mimeType, ratio)) @@ calls
    /\ nextCall' = nextCall + 1
    /\ UNCHANGED <<loaded, warnings, ai, settled>>

\* invocation c resumes from its await and goes on as next says
ClientResume(c, next) ==
    /\ calls' = IF next.done
                THEN Without(calls, c)
                ELSE [ calls EXCEPT ![c].sent = next.sent ]
    /\ UNCHANGED <<loaded, warnings, ai, nextCall>>

(***************************************************************************)
(* The client alone, called by any number of callers with any arguments.   *)
(***************************************************************************)
Photos ==
    { [ data |-> "aGVsbG8=", mimeType |-> "image/png" ],
      [ data |-> "d29ybGQ=", mimeType |-> "image/jpeg" ] }

AspectRatios == { "3:4", "4:6", "1:1" }

ShellInit ==
    /\ originalImage = Null
    /\ originalImageType = Null
    /\ generatedImage = Null
    /\ generatedFrom = Null
    /\ status = "IDLE"
    /\ error = Null
    /\ processingMessage = ""
    /\ aspectRatio = "3:4"
    /\ inputFile = Null
    /\ readers = <<>>
    /\ selects = 0
    /\ closures = <<>>
    /\ timers = <<>>
    /\ ticks = 0

ClientInit ==
    \E envKey \in EnvKeys :
        /\ loaded = ModuleLoad(envKey).loaded
        /\ warnings = ModuleLoad(envKey).warnings
        /\ ai = ModuleLoad(envKey).ai
        /\ calls = <<>>
        /\ nextCall = 1
        /\ settled = NoCall

Init == ClientInit /\ ShellInit

\* some caller invokes transformToIdPhoto
Call ==
    \E photo \in Photos, ratio \in AspectRatios :
        /\ ClientInvoke(photo.data, photo.mimeType, ratio)
        /\ UNCHANGED shellVars

\* the service answers one of the waiting invocations, and the caller notes
\* how its promise settled
Reply ==
    \E c \in DOMAIN calls, reply \in ServiceReplies(ai.apiKey) :
      \E next \in { Continue(calls[c], reply) } :
        /\ ClientResume(c, next)
        /\ settled' = IF next.done
                      THEN [ id |-> c, reply |-> reply, outcome |-> next.outcome,
                             requests |-> Len(next.sent) ]
                      ELSE settled
        /\ UNCHANGED shellVars

ClientNext == Call \/ Reply

SpecClient == Init /\ [][ClientNext]_vars

(***************************************************************************)
(* The Interaction Shell (the App component).                              *)
(***************************************************************************)
\* lines 15-23
processingMessages ==
    << "Analyzing facial features...",
       "Isolating subject from background...",
       "Adding a professional white shirt...",
       "Adjusting posture and gaze...",
       "Applying professional blue canvas...",
       "Finalizing your new ID photo...",
       "This may take a moment, creating magic..." >>

\* the files the user can pick: two images and a file that is no image
Files ==
    { [ name |-> "face.png",  type |-> "image/png",  payload |-> "aGVsbG8=" ],
      [ name |-> "face.jpg",  type |-> "image/jpeg", payload |-> "d29ybGQ=" ],
      [ name |-> "notes.txt", type |-> "text/plain", payload |-> "bm90ZXM=" ] }

\* String.prototype.startsWith
StartsWith(s, prefix) ==
    /\ Len(s) >= Len(prefix)
    /\ SubSeq(s, 1, Len(prefix)) = prefix

\* line 43: what readAsDataURL hands to onload for a file
DataURL(file) == "data:" \o file.type \o ";base64," \o file.payload

\* the positions of the commas of s
Commas(s) == { i \in 1..Len(s) : SubSeq(s, i, i) = "," }

Least(S) == CHOOSE i \in S : \A j \in S : i <= j

\* line 61: s.split(',')[1], the text between the first comma and the next
\* one (or the end); undefined when s has no comma
SplitAtComma1(s) ==
    IF Commas(s) = {} THEN Undefined
    ELSE LET first == Least(Commas(s))
             later == { i \in Commas(s) : i > first }
             stop  == IF later = {} THEN Len(s) + 1 ELSE Least(later)
         IN  SubSeq(s, first + 1, stop - 1)

\* what is on screen (lines 158-197).  The file input is mounted with the idle
\* view and unmounted with it; a fresh input holds no file, and a mounted one
\* fires onChange only for a file other than the one it holds.
FileInputShown == status = "IDLE" /\ Falsy(originalImage)
GenerateShown == ~Falsy(originalImage) /\ status \notin {"PROCESSING", "SUCCESS"}
RetryShown == status \in {"ERROR", "SUCCESS"}

\* lines 25-45, up to readAsDataURL: the user picks a file
HandleImageUpload ==
    /\ FileInputShown
    /\ selects < MaxSelects
    /\ \E file \in Files :
        /\ file.name # inputFile
        /\ selects' = selects + 1
        /\ IF ~StartsWith(file.type, "image/")
           THEN /\ error' = "Please upload a valid image file (PNG, JPG, etc.)."
                /\ status' = "ERROR"
                /\ inputFile' = Null
                /\ UNCHANGED readers
           ELSE /\ readers' = ((selects + 1) :> file) @@ readers
                /\ inputFile' = file.name
                /\ UNCHANGED <<error, status>>
    /\ UNCHANGED <<originalImage, originalImageType, generatedImage, generatedFrom,
                   processingMessage, aspectRatio, closures, timers, ticks>>
    /\ UNCHANGED clientVars

\* lines 34-38: reader.onload: resetState(), then the two setters
ReaderOnLoad ==
    \E r \in DOMAIN readers :
        /\ readers' = Without(readers, r)
        /\ originalImage' = DataURL(readers[r])
        /\ originalImageType' = readers[r].type
        /\ generatedImage' = Null
        /\ generatedFrom' = Null
        /\ status' = "IDLE"
        /\ error' = Null
        /\ inputFile' = Null
        /\ UNCHANGED <<processingMessage, aspectRatio, selects, closures, timers, ticks>>
        /\ UNCHANGED clientVars

\* lines 39-42: reader.onerror
ReaderOnError ==
    \E r \in DOMAIN readers :
        /\ readers' = Without(readers, r)
        /\ error' = "Failed to read the image file."
        /\ status' = "ERROR"
        /\ inputFile' = Null
        /\ UNCHANGED <<originalImage, originalImageType, generatedImage, generatedFrom,
                       processingMessage, aspectRatio, selects, closures, timers, ticks>>
        /\ UNCHANGED clientVars

\* lines 167, 177: the two size buttons
SetAspectRatio ==
    /\ GenerateShown
    /\ \E ratio \in {"3:4", "4:6"} :
        /\ ratio # aspectRatio
        /\ aspectRatio' = ratio
    /\ UNCHANGED <<originalImage, originalImageType, generatedImage, generatedFrom, status,
                   error, processingMessage, inputFile, readers, selects, closures, timers,
                   ticks>>
    /\ UNCHANGED clientVars

\* lines 47-62: the Generate button, up to the await
HandleGenerateClick ==
    /\ GenerateShown
    /\ ~(Falsy(originalImage) \/ Falsy(originalImageType))
    /\ status' = "PROCESSING"
    /\ error' = Null
    /\ processingMessage' = processingMessages[1]
    /\ timers' = (nextCall :> 0) @@ timers
    /\ closures' = (nextCall :> [ originalImage |-> originalImage, intervalId |-> nextCall ])
                       @@ closures
    /\ ClientInvoke(SplitAtComma1(originalImage), originalImageType, aspectRatio)
    /\ UNCHANGED <<originalImage, originalImageType, generatedImage, generatedFrom,
                   aspectRatio, inputFile, readers, selects, ticks>>

\* lines 55-58: the interval fires
Tick ==
    /\ ticks < MaxTicks
    /\ \E t \in DOMAIN timers :
        LET messageIndex == (timers[t] + 1) % Len(processingMessages) IN
        /\ timers' = [ timers EXCEPT ![t] = messageIndex ]
        /\ processingMessage' = processingMessages[messageIndex + 1]
    /\ ticks' = ticks + 1
    /\ UNCHANGED <<originalImage, originalImageType, generatedImage, generatedFrom, status,
                   error, aspectRatio, inputFile, readers, selects, closures>>
    /\ UNCHANGED clientVars

\* an activation that clears its interval only when the call succeeded
TimersAfterSuccessOnly(outcome, intervalId) ==
    IF outcome.state = "resolved" THEN Without(timers, intervalId) ELSE timers

\* lines 68-70: finally { clearInterval(intervalId) }
TimersAfter(outcome, intervalId) == Without(timers, intervalId)

\* lines 62-70: the await settles and the activation of handleGenerateClick resumes
CallCompletes ==
    \E c \in DOMAIN calls :
      \E next \in { Continue(calls[c], reply) : reply \in ServiceReplies(ai.apiKey) } :
        /\ ClientResume(c, next)
        /\ UNCHANGED settled
        /\ IF ~next.done
           THEN UNCHANGED <<generatedImage, generatedFrom, status, error, inputFile,
                            closures, timers>>
           ELSE /\ IF next.outcome.state = "resolved"
                   THEN /\ generatedImage' = "data:image/png;base64," \o next.outcome.value
                        /\ generatedFrom' = closures[c].originalImage
                        /\ status' = "SUCCESS"
                        /\ UNCHANGED error
                   ELSE /\ error' = IF next.outcome.error.isError
                                     THEN next.outcome.error.message
                                     ELSE "An unknown error occurred."
                        /\ status' = "ERROR"
                        /\ UNCHANGED <<generatedImage, generatedFrom>>
                /\ inputFile' = Null
                /\ timers' = TimersAfter(next.outcome, closures[c].intervalId)
                /\ closures' = Without(closures, c)
        /\ UNCHANGED <<originalImage, originalImageType, processingMessage, aspectRatio,
                       readers, selects, ticks>>

\* lines 73-79: resetState, from Try Again or Try Another
ResetState ==
    /\ RetryShown
    /\ originalImage' = Null
    /\ generatedImage' = Null
    /\ generatedFrom' = Null
    /\ status' = "IDLE"
    /\ error' = Null
    /\ originalImageType' = Null
    /\ inputFile' = Null
    /\ UNCHANGED <<processingMessage, aspectRatio, readers, selects, closures, timers, ticks>>
    /\ UNCHANGED clientVars

Next ==
    \/ HandleImageUpload
    \/ ReaderOnLoad
    \/ ReaderOnError
    \/ SetAspectRatio
    \/ HandleGenerateClick
    \/ Tick
    \/ CallCompletes
    \/ ResetState

Spec == Init /\ [][Next]_vars

(***************************************************************************)
(* Properties of the Transformation Client (checked under SpecClient).     *)
(***************************************************************************)
\* the parts of a well-formed response, <<>> for any other reply
PartsOf(reply) ==
    IF reply.kind = "resolve" /\ ~GetParts(reply.response).threw
    THEN GetParts(reply.response).parts
    ELSE <<>>

WellFormed(reply) == reply.kind = "resolve" /\ ~GetParts(reply.response).threw

\* the positions of the parts that carry image data
ImageIndexes(parts) == { i \in 1..Len(parts) : HasImage(parts[i]) }

\* the positions at which t occurs in s
Occurrences(s, t) == { i \in 1..(Len(s) - Len(t) + 1) : SubSeq(s, i, i + Len(t) - 1) = t }

\* C1: when the response has a part with inline image data, the promise resolves
\* with the data of the first such part, whatever text parts surround it and
\* whatever image parts follow it.
C1_FirstImageReturned ==
    (settled # NoCall /\ WellFormed(settled.reply)
        /\ ImageIndexes(PartsOf(settled.reply)) # {})
    => settled.outcome =
         [ state |-> "resolved",
           value |-> PartsOf(settled.reply)[Least(ImageIndexes(PartsOf(settled.reply)))].inlineData.data ]

\* a response with two different images settled: the first one was returned
C1_Witness ==
    /\ settled # NoCall
    /\ WellFormed(settled.reply)
    /\ PartsOf(settled.reply) = << ImagePart("QUJD"), ImagePart("REVG") >>
    /\ settled.outcome.state = "resolved"
    /\ settled.outcome.value = "QUJD"

\* the response is one or more text parts and nothing else
OnlyText(reply) ==
    /\ WellFormed(reply)
    /\ Len(PartsOf(reply)) >= 1
    /\ \A i \in 1..Len(PartsOf(reply)) :
          /\ "text" \in DOMAIN PartsOf(reply)[i]
          /\ "inlineData" \notin DOMAIN PartsOf(reply)[i]

\* C2 as stated: when the response has only text parts, the promise rejects
\* with an error whose message is exactly the fixed no-image message.
C2_ExactNoImageMessage ==
    (settled # NoCall /\ OnlyText(settled.reply))
    => /\ settled.outcome.state = "rejected"
       /\ settled.outcome.error.message = NoImageMessage

\* C2 amended: when the response has only text parts, the promise rejects
\* with an error whose message is the failure prefix followed by the fixed
\* no-image message.
C2_WrappedNoImageMessage ==
    (settled # NoCall /\ OnlyText(settled.reply))
    => /\ settled.outcome.state = "rejected"
       /\ settled.outcome.error.isError
       /\ settled.outcome.error.message = FailurePrefix \o NoImageMessage

\* a response of text parts alone settled
C2_Witness ==
    /\ settled # NoCall
    /\ OnlyText(settled.reply)
    /\ settled.outcome.state = "rejected"

\* C3: every failure reaches the caller as one uniform Error: the prefix
\* followed by the cause's message when the cause is an Error (a transport
\* failure, a malformed response, the missing image), the generic message when
\* the cause is no Error; and every failed call is rejected.
C3_UniformFailure ==
    settled # NoCall =>
      /\ settled.reply.kind = "reject" => settled.outcome.state = "rejected"
      /\ (settled.reply.kind = "resolve" /\ ~WellFormed(settled.reply))
            => settled.outcome.state = "rejected"
      /\ settled.outcome.state = "rejected" =>
          /\ settled.outcome.error.isError
          /\ (settled.reply.kind = "reject" /\ settled.reply.error.isError)
                => settled.outcome.error.message = FailurePrefix \o settled.reply.error.message
          /\ (settled.reply.kind = "reject" /\ ~settled.reply.error.isError)
                => settled.outcome.error.message = UnknownFailureMessage
          /\ (settled.reply.kind = "resolve" /\ ~WellFormed(settled.reply))
                => /\ StartsWith(settled.outcome.error.message, FailurePrefix)
                   /\ settled.outcome.error.message =
                        FailurePrefix \o GetParts(settled.reply.response).error.message
          /\ WellFormed(settled.reply)
                => settled.outcome.error.message = FailurePrefix \o NoImageMessage

\* a transport failure settled and was wrapped
C3_Witness ==
    /\ settled # NoCall
    /\ settled.reply = Reject([ isError |-> TRUE, message |-> "fetch failed" ])
    /\ settled.outcome.state = "rejected"
    /\ settled.outcome.error.message = "Failed to generate ID photo: fetch failed"

\* C4: an invocation issues exactly one request, while it waits and by the
\* time it has settled, however the service answered.
C4_OneRequest ==
    /\ \A c \in DOMAIN calls : Len(calls[c].sent) = 1
    /\ settled # NoCall => settled.requests = 1

\* an invocation failed and had issued one request
C4_Witness ==
    /\ settled # NoCall
    /\ settled.reply.kind = "reject"
    /\ settled.outcome.state = "rejected"
    /\ settled.requests = 1

RequestOf(request, args) ==
    LET parts  == request.contents.parts
        images == { i \in 1..Len(parts) : "inlineData" \in DOMAIN parts[i] }
        texts  == { i \in 1..Len(parts) : "text" \in DOMAIN parts[i] }
    IN  /\ Cardinality(images) = 1
        /\ Cardinality(texts) = 1
        /\ \A i \in images :
              parts[i].inlineData = [ data |-> args.data, mimeType |-> args.mimeType ]
        /\ \A i \in texts :
              Cardinality(Occurrences(parts[i].text, args.aspectRatio)) >= 2

\* C7: every request carries exactly one inline image part with the caller's
\* data and media type unchanged and exactly one instruction text part, and
\* the instruction contains the aspect ratio in at least two places.
C7_RequestShape ==
    \A c \in DOMAIN calls :
        \A k \in 1..Len(calls[c].sent) : RequestOf(calls[c].sent[k], calls[c].args)

\* a request for a JPEG at 4:6 is on the wire
C7_Witness ==
    \E c \in DOMAIN calls :
        /\ calls[c].args = [ data |-> "d29ybGQ=", mimeType |-> "image/jpeg", aspectRatio |-> "4:6" ]
        /\ Len(calls[c].sent) = 1

\* C8: without a credential the module still loads, having printed the
\* warning; transformToIdPhoto can be called, and a call ends rejected with
\* the uniform failure.
C8_MissingCredential ==
    Falsy(ai.apiKey) =>
      /\ loaded
      /\ warnings = << MissingKeyWarning >>
      /\ settled # NoCall =>
          /\ settled.outcome.state = "rejected"
          /\ settled.outcome.error.isError
          /\ \/ StartsWith(settled.outcome.error.message, FailurePrefix)
             \/ settled.outcome.error.message = UnknownFailureMessage

\* without a credential, a call was made and failed
C8_Witness ==
    /\ Falsy(ai.apiKey)
    /\ loaded
    /\ settled # NoCall
    /\ settled.outcome.state = "rejected"

(***************************************************************************)
(* Properties of the Interaction Shell (checked under Spec).               *)
(***************************************************************************)
\* C6: at most one transformToIdPhoto call is in flight at any time.
C6_SingleCallInFlight == Cardinality(DOMAIN calls) <= 1

\* C9: whenever the status is SUCCESS, the generated image is set and was
\* produced from the original image the shell holds now.
C9_ResultMatchesOriginal ==
    status = "SUCCESS" =>
      /\ generatedImage # Null
      /\ generatedFrom = originalImage

\* C10: the live message timers are exactly those of the calls in flight: as
\* many timers as calls, and none for a call that has resolved or rejected.
C10_TimersFollowCalls ==
    /\ DOMAIN closures = DOMAIN calls
    /\ DOMAIN timers = { closures[c].intervalId : c \in DOMAIN closures }
    /\ Cardinality(DOMAIN timers) = Cardinality(DOMAIN calls)

\* a call was rejected, the shell shows its error, and no timer is left
C10_Witness ==
    /\ status = "ERROR"
    /\ nextCall > 1
    /\ calls = <<>>
    /\ timers = <<>>
    /\ StartsWith(error, FailurePrefix)

=============================================================================
